---------------------------- MODULE Spec2Model ----------------------------
(***************************************************************************)
(* The codec subsystem of taurus.core.util.codecs: the codecs (Null, ZIP,  *)
(* BZ2, JSON, Function/Plot), the CodecPipeline and the CodecFactory.      *)
(*                                                                         *)
(* A Python string is a sequence of one-character strings, so that         *)
(* startswith, partition('_') and split('_') are computed character by     *)
(* character.  A Python value is a record [k, a, s]: its kind, its atom    *)
(* (characters) and its children.  An envelope (format, data) is a record  *)
(* [format, payload, exc]; exc is "" for a returned envelope and the       *)
(* exception's name when the call raised.                                  *)
(***************************************************************************)
EXTENDS Integers, Sequences, FiniteSets, TLC

VARIABLES
    klasses,    \* CodecFactory._codec_klasses : key -> class name
    codecs,     \* CodecFactory._codecs        : key -> instance id
    heap,       \* the codec instances ever constructed, by id
    op,         \* the last call made: [name, format, klass]
    ret,        \* what it returned: an instance id, 0 (None) or -1 (raised)
    exc,        \* the exception the last call raised ("" if none)
    prev,       \* klasses, codecs, last and the heap's size before the last call
    last,       \* key -> the instance the caller's last getCodec of it returned,
                \*        for the keys not registered or unregistered since
    regAt,      \* key -> the number of instances that existed when the key
                \*        was last registered, for the keys not unregistered since
    pristine,   \* no registerCodec or unregisterCodec call was made yet
    ncalls,     \* the factory calls made
    codec,      \* the codec instance under test
    input,      \* the envelope first handed to it
    data,       \* the envelope after the calls in `calls'
    calls,      \* the encode/decode calls applied to input, in order
    race,       \* two threads calling the factory: their positions and locals
    table,      \* a TaurusValuesTable and its TaurusValuesIOTableModel
    edit,       \* a TableInlineEdit
    led         \* a TaurusLed, its background thread and its event thread

vars == <<klasses, codecs, heap, op, ret, exc, prev, last, regAt, pristine, ncalls,
          codec, input, data, calls, race, table, edit, led>>

---------------------------------------------------------------------------
(* Bounds of the model *)

\* nested getCodec calls the interpreter's stack allows (sys.getrecursionlimit
\* divided by the frames of one getCodec -> _getNewCodec -> __init__ round)
RecursionLimit == 2

\* factory calls per behaviour
MaxCalls == 3

\* encode/decode calls applied to one envelope
MaxOps == 2

---------------------------------------------------------------------------
(* Python strings *)

s_empty == <<>>
s_zip   == <<"z","i","p">>
s_bz2   == <<"b","z","2">>
s_json  == <<"j","s","o","n">>
s_plot  == <<"p","l","o","t">>
s_null  == <<"n","u","l","l">>
s_none  == <<"n","o","n","e">>
s_type  == <<"t","y","p","e">>
s_data  == <<"d","a","t","a">>

\* a + '_' + b
Join(a, b) == a \o <<"_">> \o b

\* str.startswith
startswith(s, p) == Len(s) >= Len(p) /\ SubSeq(s, 1, Len(p)) = p

\* index of the first '_' of s, 0 if there is none
RECURSIVE FindSep(_, _)
FindSep(s, i) ==
    IF i > Len(s) THEN 0
    ELSE IF s[i] = "_" THEN i
    ELSE FindSep(s, i + 1)

\* str.partition('_')[2]: what follows the first '_', '' if there is none
partition2(s) ==
    LET i == FindSep(s, 1)
    IN IF i = 0 THEN <<>> ELSE SubSeq(s, i + 1, Len(s))

\* str.partition('_')[0]
partition0(s) ==
    LET i == FindSep(s, 1)
    IN IF i = 0 THEN s ELSE SubSeq(s, 1, i - 1)

\* str.split('_'): never empty, '' splits to ['']
RECURSIVE split(_)
split(s) ==
    IF FindSep(s, 1) = 0 THEN <<s>>
    ELSE <<partition0(s)>> \o split(partition2(s))

UpperCase == <<"A","B","C","D","E","F","G","H","I","J","K","L","M",
               "N","O","P","Q","R","S","T","U","V","W","X","Y","Z">>
LowerCase == <<"a","b","c","d","e","f","g","h","i","j","k","l","m",
               "n","o","p","q","r","s","t","u","v","w","x","y","z">>

lowerChar(c) ==
    IF \E i \in 1..26 : UpperCase[i] = c
    THEN LowerCase[CHOOSE i \in 1..26 : UpperCase[i] = c]
    ELSE c

\* str.lower
RECURSIVE lower(_)
lower(s) == IF s = <<>> THEN <<>> ELSE <<lowerChar(Head(s))>> \o lower(Tail(s))

---------------------------------------------------------------------------
(* Python values *)

NoneVal      == [k |-> "None",   a |-> <<>>, s |-> <<>>]
IntVal(d)    == [k |-> "int",    a |-> d,    s |-> <<>>]
StrVal(c)    == [k |-> "str",    a |-> c,    s |-> <<>>]
ListVal(x)   == [k |-> "list",   a |-> <<>>, s |-> x]
TupleVal(x)  == [k |-> "tuple",  a |-> <<>>, s |-> x]
\* a dict, as the sequence key, value, key, value, ... sorted by key
DictVal(x)   == [k |-> "dict",   a |-> <<>>, s |-> x]
\* a buffer viewing the string b
BufferVal(b) == [k |-> "buffer", a |-> <<>>, s |-> <<b>>]
\* the string json.dumps writes for the (JSON) value v
JsonText(v)  == [k |-> "jsontext", a |-> <<>>, s |-> <<v>>]
\* the byte string zlib.compress / bz2.compress returns for the string b
ZlibData(b)  == [k |-> "zlibdata", a |-> <<>>, s |-> <<b>>]
Bz2Data(b)   == [k |-> "bz2data",  a |-> <<>>, s |-> <<b>>]
\* what stands for the value of a call that raised
Error(name)  == [k |-> "error", a |-> <<name>>, s |-> <<>>]

IsError(v)  == v.k = "error"
\* str instances: plain text, JSON text, compressed streams
IsString(v) == v.k \in {"str", "jsontext", "zlibdata", "bz2data"}
\* byte strings that are no text (json.dumps cannot decode them)
IsBinary(v) == v.k \in {"zlibdata", "bz2data"}

\* zlib.compress: a string (or buffer) in, the compressed stream out
zlib_compress(v) ==
    IF IsString(v) THEN ZlibData(v)
    ELSE IF v.k = "buffer" THEN ZlibData(v.s[1])
    ELSE Error("TypeError")

\* zlib.decompress: only a zlib stream decompresses
zlib_decompress(v) ==
    IF v.k = "zlibdata" THEN v.s[1]
    ELSE IF v.k = "buffer" /\ v.s[1].k = "zlibdata" THEN v.s[1].s[1]
    ELSE IF IsString(v) \/ v.k = "buffer" THEN Error("zlib.error")
    ELSE Error("TypeError")

bz2_compress(v) ==
    IF IsString(v) THEN Bz2Data(v)
    ELSE IF v.k = "buffer" THEN Bz2Data(v.s[1])
    ELSE Error("TypeError")

bz2_decompress(v) ==
    IF v.k = "bz2data" THEN v.s[1]
    ELSE IF v.k = "buffer" /\ v.s[1].k = "bz2data" THEN v.s[1].s[1]
    ELSE IF IsString(v) \/ v.k = "buffer" THEN Error("IOError")
    ELSE Error("TypeError")

\* The JSON value json.dumps writes for a Python value: a tuple is written
\* as an array (read back as a list), a dict's pairs keep their order, a byte
\* string that is no text and a buffer are refused.
RECURSIVE jsonValue(_), jsonItems(_)
jsonValue(v) ==
    CASE v.k \in {"None", "int", "str", "jsontext"} -> v
      [] v.k \in {"list", "tuple", "dict"} ->
            LET items == jsonItems(v.s)
            IN IF \E i \in 1..Len(items) : IsError(items[i])
               THEN (LET j == CHOOSE i \in 1..Len(items) : IsError(items[i])
                     IN items[j])
               ELSE IF v.k = "dict" THEN DictVal(items) ELSE ListVal(items)
      [] IsBinary(v) -> Error("UnicodeDecodeError")
      [] OTHER -> Error("TypeError")
jsonItems(x) ==
    IF x = <<>> THEN <<>> ELSE <<jsonValue(Head(x))>> \o jsonItems(Tail(x))

\* json.dumps(obj, separators=(',', ':'))
json_dumps(v) ==
    LET j == jsonValue(v) IN IF IsError(j) THEN j ELSE JsonText(j)

\* json.loads
json_loads(v) ==
    IF v.k = "jsontext" THEN v.s[1]
    ELSE IF IsString(v) THEN Error("ValueError")
    ELSE Error("TypeError")

---------------------------------------------------------------------------
(* Envelopes *)

Env(f, p)   == [format |-> f, payload |-> p, exc |-> ""]
Raise(name) == [format |-> <<>>, payload |-> NoneVal, exc |-> name]
Raised(e)   == e.exc # ""

\* the envelope `format, value', or the exception the library call raised
Return(f, v) == IF IsError(v) THEN Raise(v.a[1]) ELSE Env(f, v)

\* the tuple (format, payload) as a Python value
AsTuple(e) == TupleVal(<<StrVal(e.format), e.payload>>)

---------------------------------------------------------------------------
(* The codecs *)

NullCodec_encode(d) == d

NullCodec_decode(d) == d

\* format = name; if len(data[0]): format += '_%s' % data[0]
EncodedFormat(name, f) == IF Len(f) # 0 THEN Join(name, f) ELSE name

\* faulty variant: an envelope already tagged zip is not compressed again
ZIPCodec_encode_guarded(d) ==
    IF startswith(d.format, s_zip) THEN d
    ELSE Return(EncodedFormat(s_zip, d.format), zlib_compress(d.payload))

ZIPCodec_encode(d) ==
    Return(EncodedFormat(s_zip, d.format), zlib_compress(d.payload))

ZIPCodec_decode(d) ==
    IF ~startswith(d.format, s_zip) THEN d
    ELSE Return(partition2(d.format), zlib_decompress(d.payload))

BZ2Codec_encode(d) ==
    Return(EncodedFormat(s_bz2, d.format), bz2_compress(d.payload))

BZ2Codec_decode(d) ==
    IF ~startswith(d.format, s_bz2) THEN d
    ELSE Return(partition2(d.format), bz2_decompress(d.payload))

JSONCodec_encode(d) ==
    Return(EncodedFormat(s_json, d.format), json_dumps(d.payload))

\* faulty variant: the guard on the format is missing
JSONCodec_decode_unguarded(d) ==
    LET text == IF d.payload.k = "buffer" THEN d.payload.s[1] ELSE d.payload
    IN Return(partition2(d.format), json_loads(text))

\* a buffer payload is first converted with str()
JSONCodec_decode(d) ==
    IF ~startswith(d.format, s_json) THEN d
    ELSE LET text == IF d.payload.k = "buffer" THEN d.payload.s[1] ELSE d.payload
         IN Return(partition2(d.format), json_loads(text))

\* return self._func_name, {'type': self._func_name, 'data': data}
FunctionCodec_encode(func_name, d) ==
    Env(func_name,
        DictVal(<< StrVal(s_data), AsTuple(d),
                   StrVal(s_type), StrVal(func_name) >>))

\* faulty variant: decode unwraps the record encode made
FunctionCodec_decode_unwrap(func_name, d) ==
    IF ~startswith(d.format, func_name) THEN d
    ELSE IF d.payload.k = "dict" /\ Len(d.payload.s) = 4 /\ d.payload.s[2].k = "tuple"
    THEN Env(partition2(d.format), d.payload.s[2].s[2])
    ELSE Env(partition2(d.format), d.payload)

FunctionCodec_decode(func_name, d) ==
    IF ~startswith(d.format, func_name) THEN d
    ELSE Env(partition2(d.format), d.payload)

---------------------------------------------------------------------------
(* Codec instances.  heap[id] is the instance id: its class, the name a    *)
(* FunctionCodec was constructed with, and the list a CodecPipeline is.    *)

Instance(klass, func_name, stages) ==
    [klass |-> klass, func_name |-> func_name, stages |-> stages]

RECURSIVE reversed(_)
reversed(s) == IF s = <<>> THEN <<>> ELSE reversed(Tail(s)) \o <<Head(s)>>

\* faulty variant: encode iterates in declared order
EncodeOrder_forward(stages) == stages

\* faulty variant: decode iterates in reverse order
DecodeOrder_reversed(stages) == reversed(stages)

\* CodecPipeline.encode iterates over reversed(self)
EncodeOrder(stages) == reversed(stages)

\* CodecPipeline.decode iterates over self
DecodeOrder(stages) == stages

RECURSIVE Encode(_, _, _), Decode(_, _, _), EncodeEach(_, _, _), DecodeEach(_, _, _)

\* for codec in reversed(self): data = codec.encode(data)
CodecPipeline_encode(hp, self, d) == EncodeEach(hp, EncodeOrder(hp[self].stages), d)

\* faulty variant: decode returns after the first stage
CodecPipeline_decode_firstStage(hp, self, d) ==
    DecodeEach(hp, SubSeq(DecodeOrder(hp[self].stages), 1, 1), d)

\* for codec in self: data = codec.decode(data)
CodecPipeline_decode(hp, self, d) == DecodeEach(hp, DecodeOrder(hp[self].stages), d)

\* codec.encode(data) on the instance id; an exception ends the caller's loop
Encode(hp, id, d) ==
    IF Raised(d) THEN d
    ELSE CASE hp[id].klass = "NullCodec"     -> NullCodec_encode(d)
           [] hp[id].klass = "ZIPCodec"      -> ZIPCodec_encode(d)
           [] hp[id].klass = "BZ2Codec"      -> BZ2Codec_encode(d)
           [] hp[id].klass = "JSONCodec"     -> JSONCodec_encode(d)
           [] hp[id].klass = "PlotCodec"     -> FunctionCodec_encode(hp[id].func_name, d)
           [] hp[id].klass = "CodecPipeline" -> CodecPipeline_encode(hp, id, d)

Decode(hp, id, d) ==
    IF Raised(d) THEN d
    ELSE CASE hp[id].klass = "NullCodec"     -> NullCodec_decode(d)
           [] hp[id].klass = "ZIPCodec"      -> ZIPCodec_decode(d)
           [] hp[id].klass = "BZ2Codec"      -> BZ2Codec_decode(d)
           [] hp[id].klass = "JSONCodec"     -> JSONCodec_decode(d)
           [] hp[id].klass = "PlotCodec"     -> FunctionCodec_decode(hp[id].func_name, d)
           [] hp[id].klass = "CodecPipeline" -> CodecPipeline_decode(hp, id, d)

EncodeEach(hp, ids, d) ==
    IF ids = <<>> THEN d ELSE EncodeEach(hp, Tail(ids), Encode(hp, Head(ids), d))

DecodeEach(hp, ids, d) ==
    IF ids = <<>> THEN d ELSE DecodeEach(hp, Tail(ids), Decode(hp, Head(ids), d))

---------------------------------------------------------------------------
(* The factory.  F is [klasses, codecs, heap]; a call's outcome is         *)
(* [F, ret, exc]: the factory after it, the instance returned (0 for None, *)
(* -1 when it raised) and the exception's name.                            *)

\* CaselessDict: every key is lower-cased
Key(format) == lower(format)

CODEC_MAP ==
    (Key(s_json) :> "JSONCodec") @@ (Key(s_bz2) :> "BZ2Codec") @@
    (Key(s_zip) :> "ZIPCodec") @@ (Key(s_plot) :> "PlotCodec") @@
    (Key(s_null) :> "NullCodec") @@ (Key(s_none) :> "NullCodec") @@
    (Key(s_empty) :> "NullCodec")

\* CodecFactory.init: a copy of CODEC_MAP and an empty cache; entered lists
\* the getCodec calls entered since, each with its nesting depth
init == [klasses |-> CODEC_MAP, codecs |-> <<>>, heap |-> <<>>, entered |-> <<>>]

Outcome(F, r, e) == [F |-> F, ret |-> r, exc |-> e]

\* dict without the key k
Without(f, k) == [x \in DOMAIN f \ {k} |-> f[x]]

\* klass(): the classes whose constructor takes no argument construct;
\* CodecPipeline() lacks its format argument
Construct(F, klass) ==
    IF klass = "CodecPipeline" THEN Outcome(F, -1, "TypeError")
    ELSE LET obj == Instance(klass, IF klass = "PlotCodec" THEN s_plot ELSE <<>>, <<>>)
         IN Outcome([F EXCEPT !.heap = Append(@, obj)], Len(F.heap) + 1, "")

\* faulty variant: the cached instance is kept
registerCodec_keepCache(F, format, klass) ==
    [F EXCEPT !.klasses = (Key(format) :> klass) @@ @]

\* faulty variant: the cached pipelines that have the tag as a segment are removed too
registerCodec_evictDerived(F, format, klass) ==
    [F EXCEPT !.klasses = (Key(format) :> klass) @@ @,
              !.codecs  = [k \in {x \in DOMAIN @ :
                                    \A i \in 1..Len(split(x)) : split(x)[i] # Key(format)} |-> @[k]]]

\* faulty variant: the maps compare keys as they are written
registerCodec_caseSensitive(F, format, klass) ==
    [F EXCEPT !.klasses = (format :> klass) @@ @,
              !.codecs  = IF format \in DOMAIN @ THEN Without(@, format) ELSE @]

\* self._codec_klasses[format] = klass; del self._codecs[format] if present
registerCodec(F, format, klass) ==
    [F EXCEPT !.klasses = (Key(format) :> klass) @@ @,
              !.codecs  = IF Key(format) \in DOMAIN @ THEN Without(@, Key(format)) ELSE @]

\* faulty variant: the cached instance is kept
unregisterCodec_keepCache(F, format) ==
    [F EXCEPT !.klasses = IF Key(format) \in DOMAIN @ THEN Without(@, Key(format)) ELSE @]

\* both deletions are guarded by has_key: nothing is raised
unregisterCodec(F, format) ==
    [F EXCEPT !.klasses = IF Key(format) \in DOMAIN @ THEN Without(@, Key(format)) ELSE @,
              !.codecs  = IF Key(format) \in DOMAIN @ THEN Without(@, Key(format)) ELSE @]

RECURSIVE getCodec(_, _, _), getNewCodec(_, _, _), PipelineOrFallback(_, _, _),
          CodecPipeline_init(_, _, _), AppendCodecs(_, _, _, _, _)

\* codec = self._codecs.get(format); on a miss the new codec is cached
\* unless it is None.  Past the interpreter's stack the call raises.
getCodec(F, format, depth) ==
    IF depth > RecursionLimit THEN Outcome(F, -1, "RuntimeError")
    ELSE LET G == [F EXCEPT !.entered = Append(@, [depth |-> depth, format |-> format])]
         IN IF Key(format) \in DOMAIN G.codecs
            THEN Outcome(G, G.codecs[Key(format)], "")
            ELSE LET n == getNewCodec(G, format, depth)
                 IN IF n.ret > 0
                    THEN Outcome([n.F EXCEPT !.codecs = (Key(format) :> n.ret) @@ @],
                                 n.ret, "")
                    ELSE n

\* faulty variant: a tag that contains '_' is split before the registry is
\* looked up
getNewCodec_pipelineFirst(F, format, depth) ==
    IF Key(format) \in DOMAIN F.klasses /\ Len(split(format)) = 1
    THEN Construct(F, F.klasses[Key(format)])
    ELSE LET p == CodecPipeline_init(F, format, depth)
         IN IF p.exc = "" THEN p
            ELSE IF Key(s_empty) \in DOMAIN p.F.klasses
            THEN Construct(p.F, p.F.klasses[Key(s_empty)])
            ELSE Outcome(p.F, -1, "TypeError")

\* try: ret = CodecPipeline(format); except: ret = self._codec_klasses.get('')()
PipelineOrFallback(F, format, depth) ==
    LET p == CodecPipeline_init(F, format, depth)
    IN IF p.exc = "" THEN p
       ELSE IF Key(s_empty) \in DOMAIN p.F.klasses
       THEN Construct(p.F, p.F.klasses[Key(s_empty)])
       ELSE Outcome(p.F, -1, "TypeError")

\* the registered class if there is one, else a pipeline, and on any
\* exception of its construction the class registered under ''
getNewCodec(F, format, depth) ==
    IF Key(format) \in DOMAIN F.klasses
    THEN Construct(F, F.klasses[Key(format)])
    ELSE PipelineOrFallback(F, format, depth)

\* faulty variant: the stages are appended from the last segment to the first
CodecPipeline_init_reversed(F, format, depth) ==
    AppendCodecs(F, format, reversed(split(format)), <<>>, depth)

\* for i in format.split('_'): codec = f.getCodec(i); raise TypeError if
\* codec is None; self.append(codec)
CodecPipeline_init(F, format, depth) ==
    AppendCodecs(F, format, split(format), <<>>, depth)

AppendCodecs(F, format, segments, stages, depth) ==
    IF segments = <<>>
    THEN Outcome([F EXCEPT !.heap = Append(@, Instance("CodecPipeline", <<>>, stages))],
                 Len(F.heap) + 1, "")
    ELSE LET c == getCodec(F, Head(segments), depth + 1)
         IN IF c.exc # "" THEN c
            ELSE IF c.ret = 0 THEN Outcome(c.F, -1, "TypeError")
            ELSE AppendCodecs(c.F, format, Tail(segments), Append(stages, c.ret), depth)

\* what a factory call leaves: the factory and the value returned, or the
\* error raised
Result(F, v) == [F |-> F, value |-> v]

\* the element [1] of what the codec's call returned
Payload(e) == IF Raised(e) THEN Error(e.exc) ELSE e.payload

\* return self.getCodec(data[0]).encode(data)[1]
CodecFactory_encode(F, d) ==
    LET c == getCodec(F, d.format, 0)
    IN IF c.exc # "" THEN Result(c.F, Error(c.exc))
       ELSE IF c.ret = 0 THEN Result(c.F, Error("AttributeError"))
       ELSE Result(c.F, Payload(Encode(c.F.heap, c.ret, d)))

\* faulty variant: only the codec of the first segment decodes
CodecFactory_decode_firstSegment(F, d) ==
    LET c == getCodec(F, Head(split(d.format)), 0)
    IN IF c.exc # "" THEN Result(c.F, Error(c.exc))
       ELSE IF c.ret = 0 THEN Result(c.F, Error("AttributeError"))
       ELSE Result(c.F, Payload(Decode(c.F.heap, c.ret, d)))

\* faulty variant: a decode that raises yields the payload as it was
CodecFactory_decode_swallow(F, d) ==
    LET c == getCodec(F, d.format, 0)
    IN IF c.exc # "" THEN Result(c.F, Error(c.exc))
       ELSE IF c.ret = 0 THEN Result(c.F, Error("AttributeError"))
       ELSE LET e == Decode(c.F.heap, c.ret, d)
            IN Result(c.F, IF Raised(e) THEN d.payload ELSE e.payload)

\* return self.getCodec(data[0]).decode(data)[1]
CodecFactory_decode(F, d) ==
    LET c == getCodec(F, d.format, 0)
    IN IF c.exc # "" THEN Result(c.F, Error(c.exc))
       ELSE IF c.ret = 0 THEN Result(c.F, Error("AttributeError"))
       ELSE Result(c.F, Payload(Decode(c.F.heap, c.ret, d)))

---------------------------------------------------------------------------
(* The tags, classes and envelopes the calls are made with *)

s_x        == <<"x">>
s_bz2_json == Join(s_bz2, s_json)
s_zip_json == Join(s_zip, s_json)
s_json_x   == Join(s_json, s_x)
s_totally_unknown_xyz ==
    Join(<<"t","o","t","a","l","l","y">>, Join(<<"u","n","k","n","o","w","n">>, <<"x","y","z">>))

GetTags   == {s_empty, s_null, s_none, s_json, s_bz2_json, s_x, s_json_x,
              s_totally_unknown_xyz}
RegTags   == {s_json, s_bz2_json, s_empty}
RegKlasses == {"ZIPCodec", "CodecPipeline"}
UnregTags == {s_json, s_empty, s_x}

\* tags in upper and mixed case
s_JSON     == <<"J","S","O","N">>
s_Bz2_JSON == Join(<<"B","z","2">>, s_JSON)
GetCaseTags   == {s_json, s_JSON, s_bz2_json, s_Bz2_JSON}
RegCaseTags   == {s_json, s_JSON}
UnregCaseTags == {s_JSON, s_Bz2_JSON}

\* compound tags a pipeline is constructed from
PipelineTags == {s_bz2_json, s_json_x, Join(s_x, s_zip), s_x}

\* tags the factory is asked to encode and decode with
IOTags == {s_json, s_zip, s_bz2_json, s_zip_json, s_plot, s_JSON}

int42 == IntVal(<<"4","2">>)
str_a == StrVal(<<"a">>)

Payloads ==
    { int42, str_a, NoneVal,
      ListVal(<<int42, str_a>>), TupleVal(<<int42, str_a>>),
      DictVal(<<str_a, ListVal(<<int42>>)>>),
      JsonText(int42), ZlibData(str_a), Bz2Data(str_a),
      ZlibData(JsonText(int42)), BufferVal(JsonText(int42)) }

Formats ==
    { s_empty, s_zip, s_bz2, s_json, s_plot, s_x, s_zip_json, s_bz2_json,
      Join(s_plot, s_json), Join(s_zip \o s_x, s_json), s_json \o s_x,
      Join(s_bz2 \o s_x, s_zip), s_plot \o s_x, Join(s_null, s_json) }

EnvInputs == { Env(f, p) : f \in Formats, p \in Payloads }

\* the codecs under test, by the tag they are resolved from
CodecTags ==
    { s_zip, s_bz2, s_json, s_plot, s_null, s_bz2_json, s_zip_json,
      Join(s_json, s_json), Join(s_zip, s_bz2_json), Join(s_json, s_zip),
      Join(s_plot, s_json), Join(s_null, s_json) }

\* envelopes an identity codec is tried on
Samples == { Env(s_empty, int42), Env(s_json, JsonText(int42)), Env(s_zip, str_a) }

---------------------------------------------------------------------------
(* Two threads on the factory, and the widgets *)

\* a getter thread (getCodec) and a setter thread (registerCodec); useLock
\* says whether the host serialises the calls with one lock around both maps
RaceInit(useLock) ==
    [useLock |-> useLock, lock |-> "", pcG |-> "idle", pcS |-> "idle",
     format |-> <<>>, codec |-> 0, klass |-> "", rformat |-> <<>>, rklass |-> "",
     has_key |-> FALSE, between |-> FALSE]

\* TaurusValuesTable(defaultWriteMode) after setModel and the first change
\* event: the widget's and the table model's write mode are False, the read
\* table holds the attribute's read value, nothing is modified, the check
\* box is unchecked.  A table is a sequence of cells.
TableInit(defaultWriteMode, rvalue, wvalue, visible) ==
    [defaultWriteMode |-> defaultWriteMode, writeMode |-> FALSE,
     m_writeMode |-> FALSE, rvalue |-> rvalue, wvalue |-> wvalue,
     rtabledata |-> rvalue, wtabledata |-> <<>>, modifiedDict |-> <<>>,
     visible |-> visible, checked |-> FALSE]

\* TableInlineEdit(): the limits are None until _updateValidator sets them
\* (configured), no text is typed, no style sheet is set
EditInit ==
    [configured |-> FALSE, min_range |-> 0, max_range |-> 0, min_alarm |-> 0,
     max_alarm |-> 0, dimensionless |-> FALSE, text |-> <<>>, color |-> "",
     weight |-> ""]

\* TaurusLed(): no event received, the time stamp list and the two rate
\* lists are empty, the background thread is started and sleeps, the event
\* thread is idle.  ticks, samples, appended and atTick are history: the
\* ticks ended, the count taken by each, the events appended and how many
\* of them were appended when the last count was taken.
LedInit ==
    [events_received |-> 0, events_ts |-> <<>>,
     events_fr |-> (1 :> <<>> @@ 10 :> <<>>),
     pcB |-> "sleep", ev |-> 0, key |-> 0, pcL |-> "idle", held |-> "none",
     ticks |-> 0, samples |-> <<>>, appended |-> 0, atTick |-> 0]


---------------------------------------------------------------------------
(* The state machine *)

Factory == [klasses |-> klasses, codecs |-> codecs, heap |-> heap, entered |-> <<>>]

Snapshot ==
    [klasses |-> klasses, codecs |-> codecs, heap |-> heap, nheap |-> Len(heap),
     last |-> last]

NoCall == [name |-> "init", format |-> <<>>, klass |-> ""]

InitFactory ==
    /\ klasses = init.klasses
    /\ codecs = init.codecs
    /\ heap = init.heap
    /\ op = NoCall
    /\ ret = 0
    /\ exc = ""
    /\ prev = [klasses |-> init.klasses, codecs |-> init.codecs, heap |-> init.heap,
               nheap |-> 0, last |-> <<>>]
    /\ last = <<>>
    /\ regAt = <<>>
    /\ pristine = TRUE
    /\ ncalls = 0
    /\ codec = 0
    /\ calls = <<>>

\* none of the threads and widgets below is in use
NoRace  == race = RaceInit(FALSE)
NoTable == table = TableInit(FALSE, <<0>>, <<0>>, FALSE)
NoEdit  == edit = EditInit
NoLed   == led = LedInit

Init ==
    /\ InitFactory
    /\ input = Env(s_empty, NoneVal)
    /\ data = input
    /\ NoRace /\ NoTable /\ NoEdit /\ NoLed

InitCodec ==
    /\ InitFactory
    /\ input \in EnvInputs
    /\ data = input
    /\ NoRace /\ NoTable /\ NoEdit /\ NoLed

\* the caller's codec = factory.getCodec(format)
CallGetCodec(format) ==
    LET r == getCodec(Factory, format, 0)
    IN /\ klasses' = r.F.klasses
       /\ codecs' = r.F.codecs
       /\ heap' = r.F.heap
       /\ op' = [name |-> "getCodec", format |-> format, klass |-> ""]
       /\ ret' = r.ret
       /\ exc' = r.exc
       /\ prev' = Snapshot
       /\ last' = IF r.ret > 0 THEN (Key(format) :> r.ret) @@ last ELSE last
       /\ ncalls' = ncalls + 1
       /\ UNCHANGED <<regAt, pristine>>

GetCodec ==
    /\ ncalls < MaxCalls
    /\ \E format \in GetTags : CallGetCodec(format)
    /\ UNCHANGED <<race, table, edit, led>>
    /\ UNCHANGED <<codec, input, data, calls>>

\* the caller's factory.registerCodec(format, klass)
CallRegisterCodec(format, klass) ==
    LET F == registerCodec(Factory, format, klass)
    IN /\ klasses' = F.klasses
       /\ codecs' = F.codecs
       /\ heap' = F.heap
       /\ op' = [name |-> "registerCodec", format |-> format, klass |-> klass]
       /\ ret' = 0
       /\ exc' = ""
       /\ prev' = Snapshot
       /\ last' = IF Key(format) \in DOMAIN last THEN Without(last, Key(format)) ELSE last
       /\ regAt' = (Key(format) :> Len(heap)) @@ regAt
       /\ pristine' = FALSE
       /\ ncalls' = ncalls + 1

RegisterCodec ==
    /\ ncalls < MaxCalls
    /\ \E format \in RegTags, klass \in RegKlasses : CallRegisterCodec(format, klass)
    /\ UNCHANGED <<race, table, edit, led>>
    /\ UNCHANGED <<codec, input, data, calls>>

\* the caller's factory.unregisterCodec(format)
CallUnregisterCodec(format) ==
    LET F == unregisterCodec(Factory, format)
    IN /\ klasses' = F.klasses
       /\ codecs' = F.codecs
       /\ heap' = F.heap
       /\ op' = [name |-> "unregisterCodec", format |-> format, klass |-> ""]
       /\ ret' = 0
       /\ exc' = ""
       /\ prev' = Snapshot
       /\ last' = IF Key(format) \in DOMAIN last THEN Without(last, Key(format)) ELSE last
       /\ regAt' = IF Key(format) \in DOMAIN regAt THEN Without(regAt, Key(format)) ELSE regAt
       /\ pristine' = FALSE
       /\ ncalls' = ncalls + 1

UnregisterCodec ==
    /\ ncalls < MaxCalls
    /\ \E format \in UnregTags : CallUnregisterCodec(format)
    /\ UNCHANGED <<race, table, edit, led>>
    /\ UNCHANGED <<codec, input, data, calls>>

Next == GetCodec \/ RegisterCodec \/ UnregisterCodec

Spec == Init /\ [][Next]_vars

\* the same calls with tags that differ in the case of their letters
GetCodecCase ==
    /\ ncalls < MaxCalls
    /\ \E format \in GetCaseTags : CallGetCodec(format)
    /\ UNCHANGED <<race, table, edit, led>>
    /\ UNCHANGED <<codec, input, data, calls>>

RegisterCodecCase ==
    /\ ncalls < MaxCalls
    /\ \E format \in RegCaseTags : CallRegisterCodec(format, "ZIPCodec")
    /\ UNCHANGED <<race, table, edit, led>>
    /\ UNCHANGED <<codec, input, data, calls>>

UnregisterCodecCase ==
    /\ ncalls < MaxCalls
    /\ \E format \in UnregCaseTags : CallUnregisterCodec(format)
    /\ UNCHANGED <<race, table, edit, led>>
    /\ UNCHANGED <<codec, input, data, calls>>

NextCase == GetCodecCase \/ RegisterCodecCase \/ UnregisterCodecCase

SpecCase == Init /\ [][NextCase]_vars

\* codec = CodecPipeline(format), called by the user
NewPipeline ==
    /\ ncalls < MaxCalls
    /\ \E format \in PipelineTags :
         LET r == CodecPipeline_init(Factory, format, 0)
         IN /\ klasses' = r.F.klasses
            /\ codecs' = r.F.codecs
            /\ heap' = r.F.heap
            /\ op' = [name |-> "CodecPipeline", format |-> format, klass |-> ""]
            /\ ret' = r.ret
            /\ exc' = r.exc
            /\ prev' = Snapshot
            /\ ncalls' = ncalls + 1
    /\ UNCHANGED <<race, table, edit, led>>
    /\ UNCHANGED <<last, regAt, pristine, codec, input, data, calls>>

NextPipeline == NewPipeline \/ UnregisterCodec

SpecPipeline == Init /\ [][NextPipeline]_vars

InitIO ==
    /\ InitFactory
    /\ input \in { Env(f, p) : f \in IOTags, p \in Payloads }
    /\ data = input
    /\ NoRace /\ NoTable /\ NoEdit /\ NoLed

\* the value a factory call returned is paired with the tag again: (T, value)
Paired(v) == IF IsError(v) THEN Raise(v.a[1]) ELSE Env(input.format, v)

\* factory.encode((T, v)); buffers are only decoded
FactoryEncode ==
    /\ Len(calls) < MaxOps
    /\ ~Raised(data)
    /\ data.payload.k # "buffer"
    /\ LET r == CodecFactory_encode(Factory, data)
       IN /\ klasses' = r.F.klasses
          /\ codecs' = r.F.codecs
          /\ heap' = r.F.heap
          /\ data' = Paired(r.value)
    /\ op' = [name |-> "encode", format |-> data.format, klass |-> ""]
    /\ prev' = Snapshot
    /\ calls' = Append(calls, "encode")
    /\ UNCHANGED <<race, table, edit, led>>
    /\ UNCHANGED <<ret, exc, last, regAt, pristine, ncalls, codec, input>>

\* factory.decode((T, v))
FactoryDecode ==
    /\ Len(calls) < MaxOps
    /\ ~Raised(data)
    /\ LET r == CodecFactory_decode(Factory, data)
       IN /\ klasses' = r.F.klasses
          /\ codecs' = r.F.codecs
          /\ heap' = r.F.heap
          /\ data' = Paired(r.value)
    /\ op' = [name |-> "decode", format |-> data.format, klass |-> ""]
    /\ prev' = Snapshot
    /\ calls' = Append(calls, "decode")
    /\ UNCHANGED <<race, table, edit, led>>
    /\ UNCHANGED <<ret, exc, last, regAt, pristine, ncalls, codec, input>>

NextIO == FactoryEncode \/ FactoryDecode

SpecIO == InitIO /\ [][NextIO]_vars

\* the codec under test is resolved from its tag by a fresh factory
Resolve ==
    /\ codec = 0
    /\ \E format \in CodecTags :
         /\ CallGetCodec(format)
         /\ codec' = getCodec(Factory, format, 0).ret
    /\ UNCHANGED <<race, table, edit, led>>
    /\ UNCHANGED <<input, data, calls>>

\* encode is handed strings and objects; buffers come from reading a device
\* attribute and are only decoded
CallEncode ==
    /\ codec > 0
    /\ Len(calls) < MaxOps
    /\ data.payload.k # "buffer"
    /\ data' = Encode(heap, codec, data)
    /\ calls' = Append(calls, "encode")
    /\ UNCHANGED <<race, table, edit, led>>
    /\ UNCHANGED <<klasses, codecs, heap, op, ret, exc, prev, last, regAt, pristine,
                   ncalls, codec, input>>

CallDecode ==
    /\ codec > 0
    /\ Len(calls) < MaxOps
    /\ data' = Decode(heap, codec, data)
    /\ calls' = Append(calls, "decode")
    /\ UNCHANGED <<race, table, edit, led>>
    /\ UNCHANGED <<klasses, codecs, heap, op, ret, exc, prev, last, regAt, pristine,
                   ncalls, codec, input>>

NextCodec == Resolve \/ CallEncode \/ CallDecode

SpecCodec == InitCodec /\ [][NextCodec]_vars

---------------------------------------------------------------------------
(* Claims on the codecs, checked under SpecCodec *)

\* the tag the codec under test was resolved from, and its segments
Tag      == op.format
Segments == split(Tag)
\* the instance the factory holds for the i-th segment
Stage(i) == codecs[Key(Segments[i])]

IsPipelineTag == codec > 0 /\ Len(Segments) >= 2

\* s1.encode(s2.encode(... sn.encode(e))), from segment i on
RECURSIVE NestedEncode(_, _), NestedDecode(_, _)
NestedEncode(i, e) ==
    IF i > Len(Segments) THEN e ELSE Encode(heap, Stage(i), NestedEncode(i + 1, e))
\* si.decode(... s2.decode(s1.decode(e)))
NestedDecode(i, e) ==
    IF i = 0 THEN e ELSE Decode(heap, Stage(i), NestedDecode(i - 1, e))

\* C1: the pipeline built from the tag s1_..._sn encodes an envelope e to
\* s1.encode(s2.encode(...sn.encode(e))) and decodes it to
\* sn.decode(...s2.decode(s1.decode(e))); for the two segments A_B these are
\* A.encode(B.encode(e)) and B.decode(A.decode(e)).
C1_PipelineComposition ==
    IsPipelineTag =>
        /\ calls = <<"encode">> => data = NestedEncode(1, input)
        /\ calls = <<"decode">> => data = NestedDecode(Len(Segments), input)
        /\ (calls = <<"encode">> /\ Len(Segments) = 2) =>
               data = Encode(heap, Stage(1), Encode(heap, Stage(2), input))
        /\ (calls = <<"decode">> /\ Len(Segments) = 2) =>
               data = Decode(heap, Stage(2), Decode(heap, Stage(1), input))

\* the pipeline bz2_json has encoded a list: json first, bz2 on its text
C1_Witness ==
    /\ codec > 0
    /\ Tag = s_bz2_json
    /\ calls = <<"encode">>
    /\ input = Env(s_empty, ListVal(<<int42, str_a>>))
    /\ data = Env(s_bz2_json, Bz2Data(JsonText(ListVal(<<int42, str_a>>))))

\* tags made of the segments zip, bz2 and json
CompressionOrJsonTag ==
    codec > 0 /\ \A i \in 1..Len(Segments) : Segments[i] \in {s_zip, s_bz2, s_json}

\* the stages accept the payload: encode returns
Accepted == ~Raised(Encode(heap, codec, input))

\* the payload is a byte string, or a value json writes as it stands (None,
\* numbers, text, lists and dicts of such): no tuple, no buffer
Representable(p) == IsString(p) \/ jsonValue(p) = p

IsPrimitive(names) == codec > 0 /\ Tag \in names

\* C3: zip, bz2 and json encode return the format <name> for an empty
\* incoming format and <name>_<f> otherwise, and whether encode returns does
\* not depend on the incoming format.
C3_EncodeFormat ==
    (IsPrimitive({s_zip, s_bz2, s_json}) /\ calls = <<"encode">>) =>
        /\ (~Raised(data) /\ input.format = <<>>) => data.format = Tag
        /\ (~Raised(data) /\ input.format # <<>>) =>
               data.format = Tag \o <<"_">> \o input.format
        /\ Raised(data) <=> Raised(Encode(heap, codec, Env(<<>>, input.payload)))

\* zip encoded an envelope that already carried the format zip
C3_Witness ==
    /\ IsPrimitive({s_zip})
    /\ calls = <<"encode">>
    /\ input.format = s_zip
    /\ ~Raised(data)
    /\ data.format = <<"z","i","p","_","z","i","p">>

\* C4: decode of an envelope whose format does not start with the codec's
\* name returns the envelope as it is, whatever the payload.
C4_DecodeMismatch ==
    (IsPrimitive({s_zip, s_bz2, s_json, s_plot}) /\ calls = <<"decode">>
        /\ ~startswith(input.format, Tag)) => data = input

\* json decode was handed a bz2-tagged payload that is no JSON text
C4_Witness ==
    /\ IsPrimitive({s_json})
    /\ calls = <<"decode">>
    /\ input = Env(s_bz2_json, int42)
    /\ data = input

\* what remains of f after its leading name and the '_' that follows it
StripName(f, name) ==
    IF startswith(f, name \o <<"_">>) THEN SubSeq(f, Len(name) + 2, Len(f))
    ELSE SubSeq(f, Len(name) + 1, Len(f))

\* C5 as claimed: for every format that starts with the codec's name, zip,
\* bz2 and json decode return the format that remains after the leading
\* <name>_ is removed, also when the first segment is longer than the name.
C5_DecodeStripsName ==
    (IsPrimitive({s_zip, s_bz2, s_json}) /\ calls = <<"decode">>
        /\ startswith(input.format, Tag) /\ ~Raised(data)) =>
        data.format = StripName(input.format, Tag)

\* C6 as claimed: the plot codec encodes (f, p) to the format plot and the
\* record {type: plot, data: p}.
C6_FunctionEncode ==
    (IsPrimitive({s_plot}) /\ calls = <<"encode">>) =>
        data = Env(s_plot, DictVal(<<StrVal(s_data), input.payload,
                                     StrVal(s_type), StrVal(s_plot)>>))

---------------------------------------------------------------------------
(* Claims on the factory, checked under Spec *)

IsGetCodec == op.name = "getCodec"

\* the tag is no key of the class registry and has a segment that is none
Unresolvable ==
    /\ Key(Tag) \notin DOMAIN klasses
    /\ \E i \in 1..Len(Segments) : Key(Segments[i]) \notin DOMAIN klasses

BehavesAsIdentity(id) ==
    \A e \in Samples : Encode(heap, id, e) = e /\ Decode(heap, id, e) = e

\* C8 as claimed: in a factory on which nothing was registered or
\* unregistered, getCodec of '', 'null', 'none' and of a tag that cannot be
\* resolved returns a codec whose encode and decode return their input.
C8_IdentityResolution ==
    (IsGetCodec /\ pristine /\ (Key(Tag) \in {s_empty, s_null, s_none} \/ Unresolvable)) =>
        /\ ret > 0
        /\ BehavesAsIdentity(ret)

\* C9: a getCodec of a tag returns the instance the caller's previous
\* getCodec of it returned when the tag was not registered or unregistered
\* in between; the first getCodec after registerCodec(t, K) returns an
\* instance constructed after the registration, of class K.
C9_CacheHitAndEviction ==
    (IsGetCodec /\ ret > 0) =>
        /\ Key(Tag) \in DOMAIN prev.last => ret = prev.last[Key(Tag)]
        /\ (Key(Tag) \in DOMAIN regAt /\ Key(Tag) \notin DOMAIN prev.last) =>
              /\ ret > regAt[Key(Tag)]
              /\ heap[ret].klass = klasses[Key(Tag)]

\* json was resolved (instance 1), re-registered as ZIPCodec, and resolved
\* again: instance 2, a ZIPCodec
C9_Witness ==
    /\ IsGetCodec
    /\ Tag = s_json
    /\ Key(s_json) \in DOMAIN regAt
    /\ regAt[Key(s_json)] = 1
    /\ heap[1].klass = "JSONCodec"
    /\ ret = 2
    /\ heap[2].klass = "ZIPCodec"

\* C10: registerCodec(t, K) sets the class registry's entry of t to K,
\* removes the cache's entry of t, leaves every other entry of both maps as
\* it was and constructs nothing.
C10_RegisterFrame ==
    op.name = "registerCodec" =>
        /\ klasses = [k \in DOMAIN prev.klasses \cup {Key(Tag)} |->
                         IF k = Key(Tag) THEN op.klass ELSE prev.klasses[k]]
        /\ codecs = [k \in DOMAIN prev.codecs \ {Key(Tag)} |-> prev.codecs[k]]
        /\ Len(heap) = prev.nheap

\* json was registered anew while the cache held json, bz2 and bz2_json
C10_Witness ==
    /\ op.name = "registerCodec"
    /\ Tag = s_json
    /\ DOMAIN prev.codecs = {s_json, s_bz2, s_bz2_json}
    /\ DOMAIN codecs = {s_bz2, s_bz2_json}
    /\ klasses[s_json] = "ZIPCodec"

\* C11: unregisterCodec(t) of a registered tag removes t from the class
\* registry and from the cache and leaves every other entry of both maps as
\* it was; a getCodec(t) that then finds t in neither map returns no
\* instance made before and none of a constructor registered for t: it
\* returns a pipeline (or, when the pipeline cannot be built, the fallback
\* instance of the class registered for ''), built by that call.
C11_UnregisterRemoves ==
    /\ (op.name = "unregisterCodec" /\ Key(Tag) \in DOMAIN prev.klasses) =>
          /\ klasses = [k \in DOMAIN prev.klasses \ {Key(Tag)} |-> prev.klasses[k]]
          /\ codecs = [k \in DOMAIN prev.codecs \ {Key(Tag)} |-> prev.codecs[k]]
          /\ Key(Tag) \notin DOMAIN klasses \cup DOMAIN codecs
    /\ (IsGetCodec /\ ret > 0 /\ Key(Tag) \notin DOMAIN klasses
          /\ Key(Tag) \notin DOMAIN prev.codecs) =>
          /\ ret > prev.nheap
          /\ \/ heap[ret].klass = "CodecPipeline"
             \/ /\ Key(s_empty) \in DOMAIN klasses
                /\ heap[ret].klass = klasses[Key(s_empty)]

\* json was resolved by JSONCodec, unregistered, and resolved again: the
\* second instance is a pipeline
C11_Witness ==
    /\ IsGetCodec
    /\ Tag = s_json
    /\ Key(s_json) \notin DOMAIN klasses
    /\ heap[1].klass = "JSONCodec"
    /\ ret > 1
    /\ heap[ret].klass = "CodecPipeline"

\* C12 as claimed: unregisterCodec(t) of a tag that is not registered raises
\* KeyError and leaves the class registry and the cache as they were.
C12_UnregisterUnknownRaises ==
    (op.name = "unregisterCodec" /\ Key(Tag) \notin DOMAIN prev.klasses) =>
        /\ exc = "KeyError"
        /\ klasses = prev.klasses
        /\ codecs = prev.codecs

\* the factory as it was before the call
PrevFactory ==
    [klasses |-> prev.klasses, codecs |-> prev.codecs, heap |-> prev.heap, entered |-> <<>>]

CacheMiss == IsGetCodec /\ Key(Tag) \notin DOMAIN prev.codecs

\* a segment of the tag whose resolution raises: its registered constructor
\* cannot be called without arguments, or it is not registered and neither
\* is the fallback ''
SegmentFails ==
    \E i \in 1..Len(Segments) :
        LET k == Key(Segments[i])
        IN /\ k \notin DOMAIN prev.codecs
           /\ \/ k \in DOMAIN klasses /\ klasses[k] = "CodecPipeline"
              \/ k \notin DOMAIN klasses /\ Key(s_empty) \notin DOMAIN klasses

C14_GetCodecNeverRaises ==
    IsGetCodec => (exc = "" /\ ret > 0)

---------------------------------------------------------------------------
(* Claims on tags that differ in case, checked under SpecCase *)

\* the tags are equal when the case of their letters is ignored
SameTag(a, b) == lower(a) = lower(b)

\* C15: the factory's maps ignore the case of a tag. Neither map holds two
\* keys that are equal ignoring case; getCodec(t) returns the instance cached
\* for any tag equal to t ignoring case; registerCodec(t, K) sets the class
\* of, and evicts the instance of, every such tag; unregisterCodec(t) removes
\* every such tag from both maps.
C15_CaseInsensitive ==
    /\ \A k1, k2 \in DOMAIN codecs : SameTag(k1, k2) => k1 = k2
    /\ \A k1, k2 \in DOMAIN klasses : SameTag(k1, k2) => k1 = k2
    /\ (IsGetCodec /\ ret > 0) =>
          \A k \in DOMAIN prev.codecs : SameTag(k, Tag) => ret = prev.codecs[k]
    /\ op.name = "registerCodec" =>
          /\ \E k \in DOMAIN klasses : SameTag(k, Tag)
          /\ \A k \in DOMAIN klasses : SameTag(k, Tag) => klasses[k] = op.klass
          /\ \A k \in DOMAIN codecs : ~SameTag(k, Tag)
    /\ op.name = "unregisterCodec" =>
          \A k \in DOMAIN klasses \cup DOMAIN codecs : ~SameTag(k, Tag)

\* json was resolved and cached, then JSON was asked for: the same instance
C15_Witness ==
    /\ IsGetCodec
    /\ Tag = s_JSON
    /\ \E k \in DOMAIN prev.codecs : k # Tag /\ SameTag(k, Tag) /\ prev.codecs[k] = ret
    /\ heap[ret].klass = "JSONCodec"

---------------------------------------------------------------------------
(* Claims on the factory's encode and decode, checked under SpecIO *)

\* a tag made of the segments zip, bz2 and json
IsCompressionOrJson(T) ==
    \A i \in 1..Len(split(T)) : split(T)[i] \in {s_zip, s_bz2, s_json}

\* factory.encode((T, v)) was accepted and its value, paired with T, was
\* handed to factory.decode
EncodedThenDecoded ==
    /\ calls = <<"encode", "decode">>
    /\ IsCompressionOrJson(input.format)

---------------------------------------------------------------------------
(* Claims on the construction of a pipeline, checked under SpecPipeline *)

\* C17 as claimed: CodecPipeline(T) of a compound tag T that has a segment
\* which is not registered raises TypeError and produces no pipeline.
C17_UnresolvedSegmentRaises ==
    (op.name = "CodecPipeline" /\ Len(Segments) >= 2 /\ Unresolvable) =>
        /\ exc = "TypeError"
        /\ ret = -1

---------------------------------------------------------------------------
(* Further claims on the factory, checked under Spec *)

\* C18: registerCodec(t, K) leaves the cache entries of the compound tags
\* that have t as a segment, and every instance made so far, as they were;
\* a later getCodec of a cached tag returns the cached instance with its
\* stage list unchanged (for A_B the pipeline with the old B instance);
\* the first getCodec(t) that returns after the registration yields an
\* instance of K made after it, which is no stage of an earlier pipeline.
C18_NarrowInvalidation ==
    /\ op.name = "registerCodec" =>
          /\ heap = prev.heap
          /\ \A k \in DOMAIN prev.codecs \ {Key(Tag)} :
                k \in DOMAIN codecs /\ codecs[k] = prev.codecs[k]
    /\ (IsGetCodec /\ ret > 0 /\ Key(Tag) \in DOMAIN prev.codecs) =>
          /\ ret = prev.codecs[Key(Tag)]
          /\ heap[ret] = prev.heap[ret]
    /\ (IsGetCodec /\ ret > 0 /\ Key(Tag) \in DOMAIN regAt
          /\ Key(Tag) \notin DOMAIN prev.codecs) =>
          /\ ret > regAt[Key(Tag)]
          /\ heap[ret].klass = klasses[Key(Tag)]
          /\ \A i \in 1..regAt[Key(Tag)] :
                \A j \in 1..Len(heap[i].stages) : heap[i].stages[j] # ret

\* bz2_json was resolved (bz2 1, json 2, pipeline 3), json was registered
\* as ZIPCodec, and bz2_json was resolved again: pipeline 3, whose second
\* stage is still the JSONCodec, while json has no cache entry
C18_Witness ==
    /\ IsGetCodec
    /\ Tag = s_bz2_json
    /\ ret = 3
    /\ heap[3] = Instance("CodecPipeline", <<>>, <<1, 2>>)
    /\ heap[2].klass = "JSONCodec"
    /\ Key(s_json) \in DOMAIN klasses
    /\ klasses[Key(s_json)] = "ZIPCodec"
    /\ Key(s_json) \notin DOMAIN codecs


\* C19 as claimed: after registerCodec(t, CodecPipeline), getCodec(t) raises
\* nothing and returns a codec.
C19_PipelineRegisterable ==
    (CacheMiss /\ Key(Tag) \in DOMAIN klasses /\ klasses[Key(Tag)] = "CodecPipeline") =>
        /\ exc = ""
        /\ ret > 0

---------------------------------------------------------------------------
(* Further claims on the codecs, checked under SpecCodec *)

\* what the first i stages make of the payload when each is handed it under
\* its own name
RECURSIVE StagePayload(_)
StagePayload(i) ==
    IF i = 0 THEN Env(<<>>, input.payload)
    ELSE LET q == StagePayload(i - 1)
         IN IF Raised(q) THEN q
            ELSE Decode(heap, Stage(i), Env(Segments[i], q.payload))

\* the payload is one the stages decode in turn
WellFormed == ~Raised(StagePayload(Len(Segments)))

\* the pipeline of a compound tag with segments among the names has decoded
\* a well-formed envelope that carries the tag as its format
DecodedOwnTag(names) ==
    /\ IsPipelineTag
    /\ \A i \in 1..Len(Segments) : Segments[i] \in names
    /\ calls = <<"decode">>
    /\ input.format = Tag
    /\ WellFormed

\* the i-th stage found its name at the start of the format handed to it
StageRan(i) == startswith(NestedDecode(i - 1, input).format, Segments[i])

\* C20 as claimed: for every compound tag T with segments among json, bz2,
\* zip, plot, null and none, getCodec(T).decode of a well-formed envelope of
\* format T returns the empty format.
C20_FullDecodeOriginal ==
    DecodedOwnTag({s_json, s_bz2, s_zip, s_plot, s_null, s_none}) => data.format = <<>>

\* C20 amended: for every compound tag T with segments among json, bz2, zip
\* and plot, every stage finds its name at the start of the format and the
\* decoded envelope has the empty format; a null or none stage removes no
\* segment.
C20_FullDecode ==
    DecodedOwnTag({s_json, s_bz2, s_zip, s_plot}) =>
        /\ ~Raised(data)
        /\ data.format = <<>>
        /\ data.payload = StagePayload(Len(Segments)).payload
        /\ \A i \in 1..Len(Segments) : StageRan(i)

\* zip_json decoded the compressed JSON text of 42 to ('', 42)
C20_Witness ==
    /\ codec > 0
    /\ Tag = s_zip_json
    /\ calls = <<"decode">>
    /\ input = Env(s_zip_json, ZlibData(JsonText(int42)))
    /\ data = Env(s_empty, int42)

---------------------------------------------------------------------------
(* Further claims on the factory's encode and decode, checked under SpecIO *)

\* what factory.decode makes of the same payload under the lower-case format
DecodedLowerCase ==
    CodecFactory_decode(PrevFactory, Env(lower(input.format), input.payload)).value

\* C21 as claimed: factory.decode of an envelope whose format differs only
\* in the case of its letters from a registered tag returns what it returns
\* for the lower-case format.
C21_DecodeIgnoresCase ==
    calls = <<"decode">> =>
        IF IsError(DecodedLowerCase) THEN data.exc = DecodedLowerCase.a[1]
        ELSE ~Raised(data) /\ data.payload = DecodedLowerCase


\* factory.decode was handed an envelope on whose payload a stage of its
\* format fails
DecodedMalformed == calls = <<"decode">> /\ ~WellFormed

\* what resolving the format leaves of the factory
Resolved == getCodec(PrevFactory, input.format, 0).F

\* C22 as claimed: when a stage whose guard matches fails on its payload,
\* the error comes out of factory.decode and the class registry and the cache
\* are as they were before the call.
C22_MalformedIsFatalOriginal ==
    DecodedMalformed =>
        /\ Raised(data)
        /\ klasses = prev.klasses
        /\ codecs = prev.codecs

\* C22 amended: the error the failing stage raised comes out of the codec's
\* decode, of the pipeline's decode and of factory.decode as it is; the
\* codec is not replaced by the fallback; the class registry is as it was
\* and the cache is what the resolution of the format left, which for a
\* format not cached before has new entries.
C22_MalformedIsFatal ==
    DecodedMalformed =>
        /\ Raised(data)
        /\ data.exc = StagePayload(Len(Segments)).exc
        /\ data.exc = Decode(heap, codecs[Key(input.format)], input).exc
        /\ data.exc \in {"zlib.error", "IOError", "ValueError", "TypeError"}
        /\ klasses = prev.klasses
        /\ codecs = Resolved.codecs
        /\ heap = Resolved.heap
        /\ heap[codecs[Key(input.format)]].klass # "NullCodec"

\* zip_json was handed a compressed text that is no JSON: the second stage
\* raised ValueError
C22_Witness ==
    /\ calls = <<"decode">>
    /\ input = Env(s_zip_json, ZlibData(str_a))
    /\ data = Raise("ValueError")
    /\ DOMAIN codecs = {s_zip, s_json, s_zip_json}

---------------------------------------------------------------------------
(* getCodec and registerCodec in two threads.  A step is what a thread does
   between two points at which the interpreter may switch threads: one read
   or write of a map, or one constructor call. *)

RaceGetTags == {s_json, s_zip, s_x}
RaceRegTags == {s_json, s_zip}
RaceKlass   == "BZ2Codec"

callVars == <<op, ret, exc, prev, last, regAt, pristine, ncalls, codec, input, data, calls>>

InitRace ==
    /\ InitFactory
    /\ input = Env(s_empty, NoneVal)
    /\ data = input
    /\ \E useLock \in BOOLEAN : race = RaceInit(useLock)
    /\ NoTable /\ NoEdit /\ NoLed

\* the host's lock, when it uses one, is taken before the call and released
\* after it
CanEnter == ~race.useLock \/ race.lock = ""
Taken(who) == IF race.useLock THEN who ELSE ""

\* the getter thread calls getCodec(format)
G_Begin ==
    /\ race.pcG = "idle"
    /\ CanEnter
    /\ \E format \in RaceGetTags :
         race' = [race EXCEPT !.pcG = "cache_get", !.format = format,
                              !.lock = Taken("getter")]
    /\ UNCHANGED <<klasses, codecs, heap, callVars, table, edit, led>>

\* codec = self._codecs.get(format)
G_CacheGet ==
    /\ race.pcG = "cache_get"
    /\ LET c == IF Key(race.format) \in DOMAIN codecs THEN codecs[Key(race.format)] ELSE 0
       IN race' = [race EXCEPT !.codec = c,
                               !.pcG = IF c = 0 THEN "klass_get" ELSE "return"]
    /\ UNCHANGED <<klasses, codecs, heap, callVars, table, edit, led>>

\* klass = self._codec_klasses.get(format)
G_KlassGet ==
    /\ race.pcG = "klass_get"
    /\ race' = [race EXCEPT
                  !.klass = IF Key(race.format) \in DOMAIN klasses
                            THEN klasses[Key(race.format)] ELSE "",
                  !.pcG = "construct"]
    /\ UNCHANGED <<klasses, codecs, heap, callVars, table, edit, led>>

\* ret = klass(), or the pipeline and its fallback when klass is None
G_Construct ==
    /\ race.pcG = "construct"
    /\ LET r == IF race.klass # "" THEN Construct(Factory, race.klass)
                ELSE PipelineOrFallback(Factory, race.format, 0)
       IN /\ klasses' = r.F.klasses
          /\ codecs' = r.F.codecs
          /\ heap' = r.F.heap
          /\ race' = [race EXCEPT !.codec = r.ret,
                                  !.pcG = IF r.ret > 0 THEN "cache_set" ELSE "return"]
    /\ UNCHANGED <<callVars, table, edit, led>>

\* self._codecs[format] = codec
G_CacheSet ==
    /\ race.pcG = "cache_set"
    /\ codecs' = (Key(race.format) :> race.codec) @@ codecs
    /\ race' = [race EXCEPT !.pcG = "return"]
    /\ UNCHANGED <<klasses, heap, callVars, table, edit, led>>

\* return codec
G_Return ==
    /\ race.pcG = "return"
    /\ race' = [race EXCEPT !.pcG = "done",
                            !.lock = IF @ = "getter" THEN "" ELSE @]
    /\ UNCHANGED <<klasses, codecs, heap, callVars, table, edit, led>>

\* the setter thread calls registerCodec(format, klass)
S_Begin ==
    /\ race.pcS = "idle"
    /\ CanEnter
    /\ \E format \in RaceRegTags :
         race' = [race EXCEPT !.pcS = "klass_set", !.rformat = format,
                              !.rklass = RaceKlass, !.lock = Taken("setter")]
    /\ UNCHANGED <<klasses, codecs, heap, callVars, table, edit, led>>

\* self._codec_klasses[format] = klass
S_KlassSet ==
    /\ race.pcS = "klass_set"
    /\ klasses' = (Key(race.rformat) :> race.rklass) @@ klasses
    /\ race' = [race EXCEPT
                  !.pcS = "has_key",
                  !.between = @ \/ (/\ race.pcG \in {"construct", "cache_set"}
                                    /\ Key(race.format) = Key(race.rformat))]
    /\ UNCHANGED <<codecs, heap, callVars, table, edit, led>>

\* if self._codecs.has_key(format):
S_HasKey ==
    /\ race.pcS = "has_key"
    /\ LET h == Key(race.rformat) \in DOMAIN codecs
       IN race' = [race EXCEPT !.has_key = h, !.pcS = IF h THEN "del" ELSE "return"]
    /\ UNCHANGED <<klasses, codecs, heap, callVars, table, edit, led>>

\* faulty variant: the cached instance is not deleted
S_Del_skip ==
    /\ race.pcS = "del"
    /\ race' = [race EXCEPT !.pcS = "return"]
    /\ UNCHANGED <<klasses, codecs, heap, callVars, table, edit, led>>

\* del self._codecs[format]
S_Del ==
    /\ race.pcS = "del"
    /\ Key(race.rformat) \in DOMAIN codecs
    /\ codecs' = Without(codecs, Key(race.rformat))
    /\ race' = [race EXCEPT !.pcS = "return"]
    /\ UNCHANGED <<klasses, heap, callVars, table, edit, led>>

S_Return ==
    /\ race.pcS = "return"
    /\ race' = [race EXCEPT !.pcS = "done",
                            !.lock = IF @ = "setter" THEN "" ELSE @]
    /\ UNCHANGED <<klasses, codecs, heap, callVars, table, edit, led>>

NextRace ==
    \/ G_Begin \/ G_CacheGet \/ G_KlassGet \/ G_Construct \/ G_CacheSet \/ G_Return
    \/ S_Begin \/ S_KlassSet \/ S_HasKey \/ S_Del \/ S_Return

SpecRace == InitRace /\ [][NextRace]_vars

\* both calls have returned and the cache holds under the tag an instance
\* that the constructor now registered under it did not build
BothReturned == race.pcG = "done" /\ race.pcS = "done"
StaleEntry(k) ==
    /\ k \in DOMAIN klasses
    /\ k \in DOMAIN codecs
    /\ heap[codecs[k]].klass # klasses[k]

\* C23: without a lock an interleaving of getCodec(t) and registerCodec(t, K2)
\* leaves, after both returned, an instance of the replaced constructor
\* cached under t; it is one in which registerCodec writes the registry
\* between getCodec's constructor lookup and its cache write; with one lock
\* around both calls no such state is reached.
C23_LockExcludesStaleCache ==
    (BothReturned /\ \E k \in DOMAIN codecs : StaleEntry(k)) =>
        /\ ~race.useLock
        /\ race.between

\* no lock: getCodec('json') looked JSONCodec up, registerCodec('json',
\* BZ2Codec) ran, and getCodec cached the JSONCodec it built
C23_Witness ==
    /\ BothReturned
    /\ ~race.useLock
    /\ race.format = s_json
    /\ race.rformat = s_json
    /\ klasses[Key(s_json)] = "BZ2Codec"
    /\ Key(s_json) \in DOMAIN codecs
    /\ heap[codecs[Key(s_json)]].klass = "JSONCodec"

---------------------------------------------------------------------------
(* Claims on the nesting of getCodec calls, checked under Spec *)

\* the getCodec calls the last getCodec call entered, itself first
Entered == getCodec(PrevFactory, Tag, 0).F.entered

\* the call that made the i-th one: the last one before it one level up
Caller(i) ==
    CHOOSE j \in 1..(i - 1) :
        /\ Entered[j].depth = Entered[i].depth - 1
        /\ \A m \in (j + 1)..(i - 1) : Entered[m].depth # Entered[i].depth - 1

\* the resolution ran into the end of the stack
StackExhausted == \E i \in 1..Len(Entered) : Entered[i].depth = RecursionLimit

\* C24 as claimed: every getCodec call nested in a getCodec(t) is made on a
\* tag strictly shorter than its caller's, so that none is made on the tag
\* its caller is still resolving and the nesting never reaches the end of
\* the stack.
C24_FiniteDescent ==
    IsGetCodec =>
        /\ \A i \in 2..Len(Entered) :
              /\ Len(Entered[i].format) < Len(Entered[Caller(i)].format)
              /\ Key(Entered[i].format) # Key(Entered[Caller(i)].format)
        /\ ~StackExhausted


\* C25: after any sequence of registerCodec, unregisterCodec and getCodec
\* calls, the instance cached under a key of the class registry is of the
\* class registered under that key and, when the key was registered by a
\* call, was constructed after that registration.
C25_CacheMatchesRegistry ==
    \A k \in DOMAIN klasses \cap DOMAIN codecs :
        /\ heap[codecs[k]].klass = klasses[k]
        /\ k \in DOMAIN regAt => codecs[k] > regAt[k]

\* bz2_json was resolved as a pipeline, registered as ZIPCodec and resolved
\* again: the cache holds a ZIPCodec made after the pipeline
C25_Witness ==
    /\ Key(s_bz2_json) \in DOMAIN klasses \cap DOMAIN codecs
    /\ klasses[Key(s_bz2_json)] = "ZIPCodec"
    /\ Len(heap) = 4
    /\ heap[3].klass = "CodecPipeline"
    /\ codecs[Key(s_bz2_json)] = 4
    /\ heap[4].klass = "ZIPCodec"


\* every registered class can be constructed without arguments and the
\* fallback entry '' is there
Constructible ==
    /\ <<>> \in DOMAIN prev.klasses
    /\ \A k \in DOMAIN prev.klasses : prev.klasses[k] # "CodecPipeline"

\* the first getCodec of a compound tag that is no registry key
FirstCompound ==
    /\ CacheMiss
    /\ Len(Segments) >= 2
    /\ Key(Tag) \notin DOMAIN prev.klasses
    /\ Constructible

---------------------------------------------------------------------------
(* TaurusValuesTable: the widget, its table model and the attribute *)

\* the attribute's read and write values, and what a user types in a cell
TableValues == {<<0>>, <<1>>, <<0, 1>>}
CellValues  == {0, 1, 2}

\* TaurusValuesIOTableModel.isDirty
isDirty(T) == T.modifiedDict # <<>>

\* TaurusValuesIOTableModel.setWriteMode: the write table is refreshed from
\* the attribute's write value unless there are user changes
\* faulty variant: the table model keeps the mode it had
TableModel_setWriteMode_keep(T, isWrite) ==
    [T EXCEPT !.wtabledata = IF isWrite /\ ~isDirty(T) THEN T.wvalue ELSE @]

TableModel_setWriteMode(T, isWrite) ==
    [T EXCEPT !.m_writeMode = isWrite,
              !.wtabledata = IF isWrite /\ ~isDirty(T) THEN T.wvalue ELSE @]

\* TaurusValuesIOTableModel.data(index, DisplayRole): the table it reads and
\* the value it shows; None stands for the empty QVariant
TableModel_tabledata(T) ==
    IF T.m_writeMode = FALSE THEN T.rtabledata ELSE T.wtabledata

TableModel_data(T, cell) ==
    IF cell \notin 1..Len(TableModel_tabledata(T)) THEN "None"
    ELSE IF T.m_writeMode /\ cell \in DOMAIN T.modifiedDict THEN T.modifiedDict[cell]
    ELSE TableModel_tabledata(T)[cell]

\* TaurusValuesTable.getWriteMode
getWriteMode(T) == T.writeMode

\* TaurusValuesTable.setWriteMode: nothing when the mode is the same; else
\* the widget's mode is set, and only when entering write mode (the model
\* has a value) the attribute is written with its read value if the shapes
\* differ and the table model is told; the label, the buttons and the check
\* box follow.  setChecked re-enters setWriteMode, which returns at once.
setWriteMode(T, isWrite) ==
    IF isWrite = T.writeMode THEN T
    ELSE LET T1 == [T EXCEPT !.writeMode = isWrite]
             T2 == IF Len(T1.wvalue) # Len(T1.rvalue)
                   THEN [T1 EXCEPT !.wvalue = T1.rvalue] ELSE T1
             T3 == IF isWrite THEN TableModel_setWriteMode(T2, isWrite) ELSE T1
         IN  [T3 EXCEPT !.visible = isWrite, !.checked = isWrite]

\* TaurusValuesTable.resetWriteMode
resetWriteMode(T) == setWriteMode(T, T.defaultWriteMode)

\* TaurusValuesIOTableModel.getModifiedWriteData: the write table with the
\* user's changes
getModifiedWriteData(T) ==
    [c \in 1..Len(T.wtabledata) |->
        IF c \in DOMAIN T.modifiedDict THEN T.modifiedDict[c] ELSE T.wtabledata[c]]

otherVarsTable == <<klasses, codecs, heap, callVars, race, edit, led>>

InitTable ==
    /\ InitFactory
    /\ input = Env(s_empty, NoneVal)
    /\ data = input
    /\ NoRace /\ NoEdit /\ NoLed
    /\ \E defaultWriteMode, visible \in BOOLEAN : \E rvalue, wvalue \in TableValues :
          table = TableInit(defaultWriteMode, rvalue, wvalue, visible)

SetWriteMode ==
    /\ \E isWrite \in BOOLEAN : table' = setWriteMode(table, isWrite)
    /\ UNCHANGED otherVarsTable

ResetWriteMode ==
    /\ table' = resetWriteMode(table)
    /\ UNCHANGED otherVarsTable

\* the user clicks the check box: toggled(bool) is connected to setWriteMode
RwModeToggled ==
    /\ table' = setWriteMode([table EXCEPT !.checked = ~@], ~table.checked)
    /\ UNCHANGED otherVarsTable

\* the user edits a cell: the delegate's editor is created (_onEditorCreated
\* sets write mode) and setModelData adds the text typed when it differs
\* from the initial text
EditCell ==
    /\ \E v \in CellValues :
          LET T == setWriteMode(table, TRUE)
          IN  \E cell \in 1..Len(TableModel_tabledata(T)) :
                /\ v # TableModel_data(T, cell)
                /\ table' = [T EXCEPT !.modifiedDict = (cell :> v) @@ @]
    /\ UNCHANGED otherVarsTable

\* okClicked: with user changes, applyChanges writes them to the attribute
\* and clears them, then resetWriteMode
OkClicked ==
    /\ isDirty(table)
    /\ table' = resetWriteMode([table EXCEPT !.wvalue = getModifiedWriteData(table),
                                             !.modifiedDict = <<>>])
    /\ UNCHANGED otherVarsTable

\* cancelClicked, the user confirming: cancelChanges, then resetWriteMode
CancelClicked ==
    /\ isDirty(table)
    /\ table' = resetWriteMode([table EXCEPT !.modifiedDict = <<>>])
    /\ UNCHANGED otherVarsTable

\* handleEvent with a change event: setAttr refreshes the read table
HandleEvent ==
    /\ \E rvalue \in TableValues :
          table' = [table EXCEPT !.rvalue = rvalue, !.rtabledata = rvalue]
    /\ UNCHANGED otherVarsTable

NextTable ==
    \/ SetWriteMode \/ ResetWriteMode \/ RwModeToggled \/ EditCell
    \/ OkClicked \/ CancelClicked \/ HandleEvent

SpecTable == InitTable /\ [][NextTable]_vars

\* the table shows the write values: the table model reads the write table
DisplaysWriteValues == TableModel_tabledata(table) = table.wtabledata /\ table.m_writeMode

\* C27: getWriteMode() is true exactly when the table model is in write
\* mode, that is, exactly when the table displays the write values.
C27_WriteModeConsistent ==
    /\ getWriteMode(table) <=> table.m_writeMode
    /\ getWriteMode(table) <=> DisplaysWriteValues


---------------------------------------------------------------------------
(* TableInlineEdit: the colour of the text being typed *)

\* the attribute's range and alarm limits, and the texts a user types
EditLimits == 0..4
EditTexts  == {<<"0">>, <<"1">>, <<"2">>, <<"3">>, <<"4">>, <<"x">>, <<>>}

\* Quantity(value) parses the text of a number; other texts raise
Parses(text) == Len(text) = 1 /\ text[1] \in {"0", "1", "2", "3", "4"}
Magnitude(text) ==
    CASE text[1] = "0" -> 0 [] text[1] = "1" -> 1 [] text[1] = "2" -> 2
      [] text[1] = "3" -> 3 [] OTHER -> 4

\* q of textEdited: value2Quantity(displayText()), 0.0 when that raises
Quantity(text) == IF Parses(text) THEN Magnitude(text) ELSE 0

\* the comparisons of textEdited raise when the float 0.0 is compared with
\* limits that carry a unit; with None limits neither test is true
ComparisonRaises(E, text) == ~Parses(text) /\ ~E.dimensionless

\* TableInlineEdit.textEdited: color starts 'gray'; the alarm test sets
\* 'blue'; the range test, an if of its own, then sets 'orange' or 'gray';
\* an exception in either test sets 'gray'; the weight ends 'bold'
textEdited(E, text) ==
    LET q == Quantity(text)
        color0 == "gray"
        color1 == IF E.min_alarm < q /\ q < E.max_alarm THEN "blue" ELSE color0
        color2 == IF E.min_range <= q /\ q <= E.max_range THEN "orange" ELSE "gray"
        color == IF ~E.configured \/ ComparisonRaises(E, text) THEN "gray" ELSE color2
    IN  [E EXCEPT !.text = text, !.color = color, !.weight = "bold"]

otherVarsEdit == <<klasses, codecs, heap, callVars, race, table, led>>

InitEdit ==
    /\ InitFactory
    /\ input = Env(s_empty, NoneVal)
    /\ data = input
    /\ NoRace /\ NoTable /\ NoLed
    /\ edit = EditInit

\* createEditor calls _updateValidator(attr) on the editor it has made: the
\* limits and the unit are taken from the numeric attribute
UpdateValidator ==
    /\ ~edit.configured
    /\ \E min_range, max_range, min_alarm, max_alarm \in EditLimits :
       \E dimensionless \in BOOLEAN :
          edit' = [edit EXCEPT !.configured = TRUE,
                               !.min_range = min_range, !.max_range = max_range,
                               !.min_alarm = min_alarm, !.max_alarm = max_alarm,
                               !.dimensionless = dimensionless]
    /\ UNCHANGED otherVarsEdit

\* the user types: textEdited(const QString &)
TextEdited ==
    /\ \E text \in EditTexts : edit' = textEdited(edit, text)
    /\ UNCHANGED otherVarsEdit

NextEdit == UpdateValidator \/ TextEdited

SpecEdit == InitEdit /\ [][NextEdit]_vars

\* the colour the docstring gives the text: blue when valid, orange when in
\* the range but in the alarm zone, gray when out of range or not a number
DocColor(E) ==
    IF ~Parses(E.text) THEN "gray"
    ELSE LET q == Magnitude(E.text)
         IN  IF ~(E.min_range <= q /\ q <= E.max_range) THEN "gray"
             ELSE IF E.min_alarm < q /\ q < E.max_alarm THEN "blue"
             ELSE "orange"

\* textEdited has painted the text of an editor that has its limits
Painted == edit.configured /\ edit.weight = "bold"

\* C28: textEdited paints the typed value blue when it is valid, orange when
\* it is in the allowed range but in the alarm zone, gray when it is out of
\* range or cannot be parsed.
C28_ColourAsDocumented ==
    Painted => edit.color = DocColor(edit)


---------------------------------------------------------------------------
(* TaurusLed: the event counter.  The background thread runs
   calculate_events, the event thread runs diagnostic_listener; a step is
   one read or write of an attribute or one list operation. *)

MaxTicks  == 11
MaxEvents == 2

\* t of calculate_events, and the keys of _events_fr in the order the loop
\* visits them
TickPeriod == 1
FrKeys == <<1, 10>>

RECURSIVE sum(_)
sum(l) == IF l = <<>> THEN 0 ELSE Head(l) + sum(Tail(l))

\* the last n entries of a list
LastN(l, n) == IF Len(l) <= n THEN l ELSE SubSeq(l, Len(l) - n + 1, Len(l))

otherVarsLed == <<klasses, codecs, heap, callVars, race, table, edit>>

InitLed ==
    /\ InitFactory
    /\ input = Env(s_empty, NoneVal)
    /\ data = input
    /\ NoRace /\ NoTable /\ NoEdit
    /\ led = LedInit

\* time.sleep(t) is over: ev = len(self.events_ts)
B_Len ==
    /\ led.pcB = "sleep"
    /\ led.ticks < MaxTicks
    /\ led' = [led EXCEPT !.pcB = "replace", !.ev = Len(led.events_ts),
                          !.samples = Append(@, Len(led.events_ts)),
                          !.atTick = led.appended]
    /\ UNCHANGED otherVarsLed

\* self.events_ts = []: a list the event thread has loaded is no longer the
\* attribute's
B_Replace ==
    /\ led.pcB = "replace"
    /\ led' = [led EXCEPT !.pcB = "append", !.events_ts = <<>>, !.key = 1,
                          !.held = IF @ = "current" THEN "old" ELSE @]
    /\ UNCHANGED otherVarsLed

\* self._events_fr[i].append(ev)
B_Append ==
    /\ led.pcB = "append"
    /\ led' = [led EXCEPT !.pcB = "pop",
                          !.events_fr[FrKeys[led.key]] = Append(@, led.ev)]
    /\ UNCHANGED otherVarsLed

\* if len(self._events_fr[i]) > (i/t): self._events_fr[i].pop(); then the
\* next key, or the tick is over
B_Pop ==
    /\ led.pcB = "pop"
    /\ LET i == FrKeys[led.key]
           l == led.events_fr[i]
       IN  led' = [led EXCEPT
                     !.events_fr[i] = IF Len(l) > i \div TickPeriod
                                      THEN SubSeq(l, 1, Len(l) - 1) ELSE l,
                     !.pcB = IF led.key < Len(FrKeys) THEN "append" ELSE "sleep",
                     !.key = IF led.key < Len(FrKeys) THEN @ + 1 ELSE 0,
                     !.ticks = IF led.key < Len(FrKeys) THEN @ ELSE @ + 1]
    /\ UNCHANGED otherVarsLed

\* diagnostic_listener(src, type, value): an event without a time returns at
\* once; else self.events_received += 1
L_Count ==
    /\ led.pcL = "idle"
    /\ led.appended < MaxEvents
    /\ \E hasTime \in BOOLEAN :
          led' = IF hasTime
                 THEN [led EXCEPT !.pcL = "load", !.events_received = @ + 1]
                 ELSE [led EXCEPT !.pcL = "return"]
    /\ UNCHANGED otherVarsLed

\* self.events_ts is loaded ...
L_Load ==
    /\ led.pcL = "load"
    /\ led' = [led EXCEPT !.pcL = "append", !.held = "current"]
    /\ UNCHANGED otherVarsLed

\* ... and .append(time.time()) is called on the list loaded
L_Append ==
    /\ led.pcL = "append"
    /\ led' = [led EXCEPT !.pcL = "return", !.held = "none",
                          !.appended = @ + 1,
                          !.events_ts = IF led.held = "current"
                                        THEN Append(@, led.ticks) ELSE @]
    /\ UNCHANGED otherVarsLed

L_Return ==
    /\ led.pcL = "return"
    /\ led' = [led EXCEPT !.pcL = "idle"]
    /\ UNCHANGED otherVarsLed

NextLed ==
    \/ B_Len \/ B_Replace \/ B_Append \/ B_Pop
    \/ L_Count \/ L_Load \/ L_Append \/ L_Return

SpecLed == InitLed /\ [][NextLed]_vars

\* getDisplayDescrObj: 'Average Hz in i secs' is 0 for an empty list, else
\* sum(l) / float(len(l)), here the pair of sum and length
AverageHz(L, i) ==
    LET l == L.events_fr[i]
    IN  IF Len(l) = 0 THEN <<0, 1>> ELSE <<sum(l), Len(l)>>

\* a tick has just ended
TickEnded == led.pcB = "sleep" /\ led.ticks > 0

\* C29: after every tick each list _events_fr[i] has at most i/t entries,
\* they are the most recent per-tick counts, the count of the tick just
\* ended last, and the average reported is that of the last i seconds.
C29_WindowIsRecent ==
    TickEnded =>
        \A k \in 1..Len(FrKeys) :
            LET i == FrKeys[k]
            IN  /\ Len(led.events_fr[i]) <= i \div TickPeriod
                /\ led.events_fr[i] = LastN(led.samples, i \div TickPeriod)
                /\ AverageHz(led, i) = <<sum(LastN(led.samples, i \div TickPeriod)),
                                         Len(LastN(led.samples, i \div TickPeriod))>>

\* C30: every appended event is counted in exactly one per-tick sample: the
\* sum of all samples taken equals the number of events appended before the
\* last tick.
C30_NoEventLost ==
    sum(led.samples) = led.atTick

===========================================================================
